---- MODULE Spec2Model ----
\* A model of the traverse test-automation helpers:
\*   utilities/database.py      MySql / PostGre connect_to_db retry loop and the query helpers
\*   driver/driver_interface.py Hooks, DriverHelper, DriverActions (locator resolution, screenshots)
\*   core/core_details.py       TestDefinition and its process-wide id counter
\* Each subsystem has its own specification (SpecDb, SpecDriver, SpecShot, SpecTest) over the
\* shared variables; the variables of the other subsystems keep their initial values.
EXTENDS Integers, Sequences, FiniteSets, TLC

VARIABLES
    \* ---- utilities/database.py ----
    pc,         \* position of the caller in connect_to_db: idle, loop, try, except, returned, raised
    cls,        \* the class whose static method runs: "MySql" or "PostGre"
    use_ssh,    \* the use_ssh argument
    attempt,    \* the local variable attempt of connect_to_db
    events,     \* what the running call has done so far: connection attempts and sleeps, in order
    tunnel,     \* the SSHTunnelForwarder of the latest attempt: none, open, closed
    conn,       \* the connection handle held by the caller: none, open, closed
    db_error,   \* the exception that left connect_to_db, or "none"
    query,      \* the latest query helper call: its class, method, rows fetched and outcome
    \* ---- core/core_details.py ----
    id_itr,     \* the value the class attribute TestDefinition.id_itr yields next
    tests,      \* the TestDefinition objects constructed so far, in construction order
    \* ---- driver/driver_interface.py ----
    driver,         \* DriverActions.driver: the engine session held, or "none"
    hooks,          \* DriverActions.hooks: "False", or the hook file the Hooks object loaded
    screenshot_dir, \* DriverHelper.screenshot_dir, read from the driver configuration
    ctor,           \* the latest DriverActions(...) call: arguments, steps taken, error
    call,           \* the latest interaction method call: arguments, lookups, engine calls, outcome
    fs,             \* the files on disk: path -> number of the take_screenshot call that wrote it (0: older)
    dirs,           \* the directories on disk
    shot,           \* the latest take_screenshot call
    shots_taken     \* how many take_screenshot calls were made

db_vars == <<pc, cls, use_ssh, attempt, events, tunnel, conn, db_error, query>>

test_vars == <<id_itr, tests>>

session_vars == <<driver, hooks, screenshot_dir, ctor>>

call_vars == <<call>>

shot_vars == <<fs, dirs, shot, shots_taken>>

drv_vars == <<session_vars, call_vars, shot_vars>>

vars == <<db_vars, test_vars, drv_vars>>

\* What a subsystem's operations leave alone: the state of the other subsystems.
not_db_vars == <<test_vars, drv_vars>>

not_test_vars == <<db_vars, drv_vars>>

not_drv_vars == <<db_vars, test_vars>>

\* ------------------------------------------------------------------------------------------
\* utilities/database.py
\* ------------------------------------------------------------------------------------------

Classes == {"MySql", "PostGre"}

\* use_ssh is compared with == 1 (MySql) or == 0 (PostGre); 2 tells the two tests apart.
SshArgs == {0, 1, 2}

MySql_retry_limit == 3

MySql_delay == 2

PostGre_retry_limit == 3

PostGre_delay == 2

retry_limit(c) == IF c = "MySql" THEN MySql_retry_limit ELSE PostGre_retry_limit

delay(c) == IF c = "MySql" THEN MySql_delay ELSE PostGre_delay

\* MySql tunnels when use_ssh == 1; PostGre connects directly when use_ssh == 0 and tunnels otherwise.
UsesTunnel(c, ssh) == IF c = "MySql" THEN ssh = 1 ELSE ssh # 0

AttemptEvent(ok) == [kind |-> "attempt", ok |-> ok, len |-> 0]

SleepEvent(n) == [kind |-> "sleep", ok |-> FALSE, len |-> n]

IsAttempt(e) == e.kind = "attempt"

IsSleep(e) == e.kind = "sleep"

Attempts(tr) == Len(SelectSeq(tr, IsAttempt))

Sleeps(tr) == Len(SelectSeq(tr, IsSleep))

NoQuery == [cls |-> "none", op |-> "none", rows |-> <<>>, outcome |-> "none", result |-> <<>>]

InitDb ==
    /\ pc = "idle"
    /\ cls = "MySql"
    /\ use_ssh = 0
    /\ attempt = 0
    /\ events = <<>>
    /\ tunnel = "none"
    /\ conn = "none"
    /\ db_error = "none"
    /\ query = NoQuery

\* A caller enters connect_to_db: attempt = 0, then the while True loop.
connect_to_db(c, ssh) ==
    /\ pc \in {"idle", "returned", "raised"}
    /\ pc' = "loop"
    /\ cls' = c
    /\ use_ssh' = ssh
    /\ attempt' = 0
    /\ events' = <<>>
    /\ tunnel' = "none"
    /\ conn' = "none"
    /\ db_error' = "none"
    /\ query' = NoQuery
    /\ UNCHANGED not_db_vars

\* LoopCheck with `attempt < retry_limit` in place of `<=`.
LoopCheck_OffByOne ==
    /\ pc = "loop"
    /\ IF attempt < retry_limit(cls)
          THEN pc' = "try" /\ db_error' = db_error
          ELSE pc' = "raised" /\ db_error' = "Unable to connect to Database"
    /\ UNCHANGED <<cls, use_ssh, attempt, events, tunnel, conn, query, not_db_vars>>

\* The loop head: if attempt <= retry_limit, try; else raise Exception('Unable to connect ...').
LoopCheck ==
    /\ pc = "loop"
    /\ IF attempt <= retry_limit(cls)
          THEN pc' = "try" /\ db_error' = db_error
          ELSE pc' = "raised" /\ db_error' = "Unable to connect to Database"
    /\ UNCHANGED <<cls, use_ssh, attempt, events, tunnel, conn, query, not_db_vars>>

\* What one pass through the try block can do: the tunnel may fail to open (only when
\* tunnelling), the client library may fail to connect, or the connection is made.
TryOutcomes(c, ssh) ==
    IF UsesTunnel(c, ssh) THEN {"tunnel_fail", "connect_fail", "ok"} ELSE {"connect_fail", "ok"}

\* The try block. A success returns from inside the with block, whose exit closes the tunnel
\* before the caller receives the handle; a failure leaves through except.
TryConnect ==
    /\ pc = "try"
    /\ \E o \in TryOutcomes(cls, use_ssh) :
        /\ events' = Append(events, AttemptEvent(o = "ok"))
        /\ tunnel' = IF UsesTunnel(cls, use_ssh) /\ o # "tunnel_fail" THEN "closed" ELSE "none"
        /\ IF o = "ok"
              THEN pc' = "returned" /\ conn' = "open"
              ELSE pc' = "except" /\ conn' = conn
    /\ UNCHANGED <<cls, use_ssh, attempt, db_error, query, not_db_vars>>

\* Except without the time.sleep(delay).
Except_NoSleep ==
    /\ pc = "except"
    /\ attempt' = attempt + 1
    /\ pc' = "loop"
    /\ UNCHANGED <<cls, use_ssh, events, tunnel, conn, db_error, query, not_db_vars>>

\* The except block: attempt = attempt + 1, a warning, time.sleep(delay), back to the loop head.
Except ==
    /\ pc = "except"
    /\ attempt' = attempt + 1
    /\ events' = Append(events, SleepEvent(delay(cls)))
    /\ pc' = "loop"
    /\ UNCHANGED <<cls, use_ssh, tunnel, conn, db_error, query, not_db_vars>>

\* ---- the query helpers ----

MaxRows == 2

\* The result sets fetchall() can deliver: lists of 0..MaxRows rows.
RowSets == {[i \in 1..n |-> i] : n \in 0..MaxRows}

\* `x is []` compares the identity of x with a list created by the expression itself:
\* no object that existed before is that list, so the test is False whatever x holds.
IsNewEmptyList(x) == FALSE

\* A closed handle cannot give a cursor; otherwise any step may raise or all may pass.
QueryFailures(steps) == IF conn = "closed" THEN {"cursor"} ELSE {"none"} \cup steps

QueryRecord(c, op, rows, outcome, result) ==
    [cls |-> c, op |-> op, rows |-> rows, outcome |-> outcome, result |-> result]

\* MySql.execute_query: cursor, execute, commit, return True. The handle is left as it was.
MySql_execute_query ==
    /\ pc = "returned" /\ cls = "MySql" /\ conn # "none"
    /\ \E f \in QueryFailures({"cursor", "execute", "commit"}) :
        query' = QueryRecord("MySql", "execute_query", <<>>,
                             IF f = "none" THEN "returned" ELSE "raised_" \o f, <<>>)
    /\ UNCHANGED <<pc, cls, use_ssh, attempt, events, tunnel, conn, db_error, not_db_vars>>

\* MySql.execute_query_return_results: cursor, execute, fetchall, then the `is []` test.
MySql_execute_query_return_results ==
    /\ pc = "returned" /\ cls = "MySql" /\ conn # "none"
    /\ \E f \in QueryFailures({"cursor", "execute", "fetch"}), raw_results \in RowSets :
        query' = IF f # "none"
                    THEN QueryRecord("MySql", "execute_query_return_results", <<>>, "raised_" \o f, <<>>)
                 ELSE IF IsNewEmptyList(raw_results)
                    THEN QueryRecord("MySql", "execute_query_return_results", raw_results,
                                     "DatabaseReturnedNothingError", <<>>)
                 ELSE QueryRecord("MySql", "execute_query_return_results", raw_results,
                                  "returned", raw_results)
    /\ UNCHANGED <<pc, cls, use_ssh, attempt, events, tunnel, conn, db_error, not_db_vars>>

\* PostGre.execute_query: cursor, execute, conn.close(), return True.
PostGre_execute_query ==
    /\ pc = "returned" /\ cls = "PostGre" /\ conn # "none"
    /\ \E f \in QueryFailures({"cursor", "execute"}) :
        /\ query' = QueryRecord("PostGre", "execute_query", <<>>,
                                IF f = "none" THEN "returned" ELSE "raised_" \o f, <<>>)
        /\ conn' = IF f = "none" THEN "closed" ELSE conn
    /\ UNCHANGED <<pc, cls, use_ssh, attempt, events, tunnel, db_error, not_db_vars>>

\* PostGre.execute_query_return_results without its conn.close() calls.
PostGre_execute_query_return_results_NoClose ==
    /\ pc = "returned" /\ cls = "PostGre" /\ conn # "none"
    /\ \E f \in QueryFailures({"cursor", "execute", "fetch"}), results \in RowSets :
        query' = IF f # "none"
                    THEN QueryRecord("PostGre", "execute_query_return_results", <<>>, "raised_" \o f, <<>>)
                 ELSE QueryRecord("PostGre", "execute_query_return_results", results, "returned", results)
    /\ UNCHANGED <<pc, cls, use_ssh, attempt, events, tunnel, conn, db_error, not_db_vars>>

\* PostGre.execute_query_return_results: cursor, execute, fetchall, the `is []` test, and
\* conn.close() on both of its branches.
PostGre_execute_query_return_results ==
    /\ pc = "returned" /\ cls = "PostGre" /\ conn # "none"
    /\ \E f \in QueryFailures({"cursor", "execute", "fetch"}), results \in RowSets :
        /\ query' = IF f # "none"
                       THEN QueryRecord("PostGre", "execute_query_return_results", <<>>, "raised_" \o f, <<>>)
                    ELSE IF IsNewEmptyList(results)
                       THEN QueryRecord("PostGre", "execute_query_return_results", results,
                                        "DatabaseReturnedNothingError", <<>>)
                    ELSE QueryRecord("PostGre", "execute_query_return_results", results,
                                     "returned", results)
        /\ conn' = IF f = "none" THEN "closed" ELSE conn
    /\ UNCHANGED <<pc, cls, use_ssh, attempt, events, tunnel, db_error, not_db_vars>>

NextDb ==
    \/ \E c \in Classes, ssh \in SshArgs : connect_to_db(c, ssh)
    \/ LoopCheck
    \/ TryConnect
    \/ Except
    \/ MySql_execute_query
    \/ MySql_execute_query_return_results
    \/ PostGre_execute_query
    \/ PostGre_execute_query_return_results

\* ------------------------------------------------------------------------------------------
\* core/core_details.py
\* ------------------------------------------------------------------------------------------

MaxTests == 3

TestStatus == {"Untested", "Passed", "Failed", "Blocked", "Retest", "InProgress"}

TestNames == {"None", "login"}

\* Class creation: id_itr = itertools.count(), which starts at 0; no object exists yet.
InitTest ==
    /\ id_itr = 0
    /\ tests = <<>>

\* __init__ reading the counter without advancing it.
TestDefinition_init_NoAdvance ==
    /\ Len(tests) < MaxTests
    /\ tests' = Append(tests, [test_id |-> id_itr, test_name |-> "None", test_status |-> "Untested"])
    /\ id_itr' = id_itr
    /\ UNCHANGED not_test_vars

\* TestDefinition.__init__: test_id = next(self.id_itr), the other fields None, status Untested.
TestDefinition_init ==
    /\ Len(tests) < MaxTests
    /\ tests' = Append(tests, [test_id |-> id_itr, test_name |-> "None", test_status |-> "Untested"])
    /\ id_itr' = id_itr + 1
    /\ UNCHANGED not_test_vars

\* The test runner assigns a field other than test_id of a record it holds.
SetTestStatus(i, v) ==
    /\ i \in 1..Len(tests)
    /\ tests' = [tests EXCEPT ![i].test_status = v]
    /\ UNCHANGED <<id_itr, not_test_vars>>

SetTestName(i, v) ==
    /\ i \in 1..Len(tests)
    /\ tests' = [tests EXCEPT ![i].test_name = v]
    /\ UNCHANGED <<id_itr, not_test_vars>>

NextTest ==
    \/ TestDefinition_init
    \/ \E i \in 1..MaxTests, v \in TestStatus : SetTestStatus(i, v)
    \/ \E i \in 1..MaxTests, v \in TestNames : SetTestName(i, v)

\* ------------------------------------------------------------------------------------------
\* driver/driver_interface.py
\* ------------------------------------------------------------------------------------------

LocateBy == {"id", "class name", "xpath", "css selector", "tag name", "link text"}

Browsers == {"chrome", "chromium", "firefox", "ie", "edge", "opera"}

\* The capability files on disk, by (platform, capability), each with its browserName.
\* "Chrome" is a file whose browserName differs from Browsers.CHROME only by case.
CapFiles ==
    [pc_ \in {<<"desktop", "chrome">>, <<"desktop", "chromium">>, <<"desktop", "firefox">>,
              <<"desktop", "ie">>, <<"desktop", "edge">>, <<"desktop", "opera">>,
              <<"desktop", "safari">>, <<"desktop", "Chrome">>} |-> pc_[2]]

Platforms == {"desktop", "mobile"}

Capabilities == {"chrome", "chromium", "firefox", "ie", "edge", "opera", "safari", "Chrome", "absent"}

\* The hook files on disk: hook name -> {type, value}. "btn1" is both a hook name and the
\* value of another hook.
HookFiles ==
    [f \in {"main"} |->
        [n \in {"login_button", "btn1"} |->
            IF n = "login_button" THEN [type |-> "id", value |-> "btn1"]
                                  ELSE [type |-> "xpath", value |-> "//button"]]]

HookFileNames == {"False", "main", "absent"}

\* LoadJson.using_filepath on a hook file: the parsed mapping, or the file is not there.
LoadJson_using_filepath(f) ==
    IF f \in DOMAIN HookFiles THEN [ok |-> TRUE, json |-> HookFiles[f]]
                              ELSE [ok |-> FALSE, json |-> <<>>]

\* The values the configuration can give screenshotDir, as strings of path tokens, with and
\* without a trailing separator.
ScreenshotDirs == {<<"shots", "/">>, <<"shots">>}

\* DriverHelper.load_capability: the file must exist, else 'Capability Not Found!'.
load_capability(platform, capability) ==
    IF <<platform, capability>> \notin DOMAIN CapFiles
        THEN [ok |-> FALSE, error |-> "Capability Not Found!", browserName |-> "none"]
        ELSE [ok |-> TRUE, error |-> "none", browserName |-> CapFiles[<<platform, capability>>]]

\* load_driver whose chain ends in a Chrome default instead of the raising else.
load_driver_DefaultsToChrome(browserName) ==
    CASE browserName = "chromium" -> [ok |-> TRUE, error |-> "none", driver |-> "Chrome(chromium)"]
      [] browserName = "firefox" -> [ok |-> TRUE, error |-> "none", driver |-> "Firefox"]
      [] browserName = "ie" -> [ok |-> TRUE, error |-> "none", driver |-> "Ie"]
      [] browserName = "edge" -> [ok |-> TRUE, error |-> "none", driver |-> "Edge"]
      [] browserName = "opera" -> [ok |-> TRUE, error |-> "none", driver |-> "Opera"]
      [] OTHER -> [ok |-> TRUE, error |-> "none", driver |-> "Chrome"]

\* DriverHelper.load_driver: the if / elif chain on capabilities['browserName'].
load_driver(browserName) ==
    CASE browserName = "chrome" -> [ok |-> TRUE, error |-> "none", driver |-> "Chrome"]
      [] browserName = "chromium" -> [ok |-> TRUE, error |-> "none", driver |-> "Chrome(chromium)"]
      [] browserName = "firefox" -> [ok |-> TRUE, error |-> "none", driver |-> "Firefox"]
      [] browserName = "ie" -> [ok |-> TRUE, error |-> "none", driver |-> "Ie"]
      [] browserName = "edge" -> [ok |-> TRUE, error |-> "none", driver |-> "Edge"]
      [] browserName = "opera" -> [ok |-> TRUE, error |-> "none", driver |-> "Opera"]
      [] OTHER -> [ok |-> FALSE, error |-> "Unable to identify browser to load driver", driver |-> "none"]

NoCtor == [platform |-> "none", capability |-> "none", hook_file_name |-> "none",
           steps |-> <<>>, error |-> "none"]

NoCall == [method |-> "none", hook_value |-> "none", locate_by |-> "none", lookups |-> 0,
           engine |-> <<>>, outcome |-> "none", result |-> "none"]

Construction(platform, capability, hook_file_name, steps, error) ==
    [platform |-> platform, capability |-> capability, hook_file_name |-> hook_file_name,
     steps |-> steps, error |-> error]

\* DriverActions.__init__: DriverHelper(), load_capability, load_driver, ActionChains and
\* WebDriverWait on the driver, then Hooks(hook_file_name) unless it is False. An exception
\* leaves no object behind. ctor.steps lists what was done, in order.
DriverActions_init(platform, capability, hook_file_name, cfg_dir) ==
    LET cap == load_capability(platform, capability)
        drv == load_driver(cap.browserName)
        hk == LoadJson_using_filepath(hook_file_name)
        s1 == <<"load_capability">>
        s2 == s1 \o <<"load_driver">>
        s3 == s2 \o <<"webdriver." \o drv.driver>>
    IN
    /\ call' = NoCall
    /\ IF ~cap.ok THEN
            /\ ctor' = Construction(platform, capability, hook_file_name, s1, cap.error)
            /\ driver' = "none" /\ hooks' = "False" /\ screenshot_dir' = <<>>
       ELSE IF ~drv.ok THEN
            /\ ctor' = Construction(platform, capability, hook_file_name, s2, drv.error)
            /\ driver' = "none" /\ hooks' = "False" /\ screenshot_dir' = <<>>
       ELSE IF hook_file_name # "False" /\ ~hk.ok THEN
            /\ ctor' = Construction(platform, capability, hook_file_name, s3 \o <<"Hooks">>,
                                    "hook file not found")
            /\ driver' = "none" /\ hooks' = "False" /\ screenshot_dir' = <<>>
       ELSE
            /\ ctor' = Construction(platform, capability, hook_file_name,
                                    IF hook_file_name # "False" THEN s3 \o <<"Hooks">> ELSE s3, "none")
            /\ driver' = drv.driver
            /\ hooks' = hook_file_name
            /\ screenshot_dir' = cfg_dir
    /\ UNCHANGED <<shot_vars, not_drv_vars>>

\* ---- Hooks and locator resolution ----

\* What a test passes as hook_value: hook names of the file, a hook's value that is also a
\* hook name ("btn1"), and a literal locator that is no hook name.
Targets == {"login_button", "btn1", "#user"}

\* The locate_by argument: its default False, or one of the LocateBy kinds.
LocateByArgs == {"False"} \cup LocateBy

\* get_hook returning (value, type).
get_hook_Swapped(h, hook_name) ==
    IF hook_name \in DOMAIN HookFiles[h]
        THEN [ok |-> TRUE, pair |-> <<HookFiles[h][hook_name].value, HookFiles[h][hook_name].type>>]
        ELSE [ok |-> FALSE, pair |-> <<"none", "none">>]

\* Hooks.get_hook: hook = self.hooks.get(hook_name) is None for an absent name, and
\* hook.get('type') on None raises AttributeError; otherwise returns (type, value).
get_hook(h, hook_name) ==
    IF hook_name \in DOMAIN HookFiles[h]
        THEN [ok |-> TRUE, pair |-> <<HookFiles[h][hook_name].type, HookFiles[h][hook_name].value>>]
        ELSE [ok |-> FALSE, pair |-> <<"none", "none">>]

\* Hooks.get_hook_type: self.get_hook(hook_name)[0]
get_hook_type(h, hook_name) == [ok |-> get_hook(h, hook_name).ok, val |-> get_hook(h, hook_name).pair[1]]

\* Hooks.get_hook_value: self.get_hook(hook_name)[1]
get_hook_value(h, hook_name) == [ok |-> get_hook(h, hook_name).ok, val |-> get_hook(h, hook_name).pair[2]]

Resolution(forward, error, lookups, by, value) ==
    [forward |-> forward, error |-> error, lookups |-> lookups, by |-> by, value |-> value]

\* DriverDecorators.check_locate_by, the wrapper _check_if_hook_needed: the wrapped method is
\* called only inside `if self.hooks is not False: if locate_by is False:`; on every other
\* path the wrapper falls off its end and returns None.
check_locate_by(hook_value, locate_by) ==
    IF hooks # "False" /\ locate_by = "False"
        THEN LET t == get_hook_type(hooks, hook_value)
                 v == get_hook_value(hooks, hook_value)
             IN IF ~t.ok THEN Resolution(FALSE, "AttributeError", 1, "none", "none")
                ELSE IF ~v.ok THEN Resolution(FALSE, "AttributeError", 2, "none", "none")
                ELSE Resolution(TRUE, "none", 2, t.val, v.val)
        ELSE Resolution(FALSE, "none", 0, "none", "none")

\* DriverActions._check_locate_by: looks the hook up under the same two conditions, and
\* otherwise returns (locate_by, hook_value) as passed; the caller always goes on.
_check_locate_by(hook_value, locate_by) ==
    IF hooks # "False" /\ locate_by = "False"
        THEN LET h == get_hook(hooks, hook_value)
             IN IF ~h.ok THEN Resolution(FALSE, "AttributeError", 1, "none", "none")
                ELSE Resolution(TRUE, "none", 1, h.pair[1], h.pair[2])
        ELSE Resolution(TRUE, "none", 0, locate_by, hook_value)

EngineCall(op, by, value) == [op |-> op, by |-> by, value |-> value]

\* The engine either does what it is asked or raises one of its own errors.
EngineOutcomes == {"ok", "raise"}

\* The first call an interaction method makes on the engine with its locator.
EngineOp(method) ==
    CASE method = "wait_for_element_visible" -> "wait.until(visibility_of_element_located)"
      [] method = "wait_until_element_invisible" -> "wait.until(invisibility_of_element)"
      [] method = "fill_in_field" -> "find_element.send_keys"
      [] method = "select_element" -> "find_element.click"
      [] method = "hover_over_element" -> "find_element"
      [] method = "get_element_text" -> "find_element.text"

\* The body of an interaction method run with (locate_by, hook_value): its engine calls
\* (hover_over_element goes on to move_to_element(element).perform()), and what it returns.
MethodBody(method, by, value, eng) ==
    [engine |-> <<EngineCall(EngineOp(method), by, value)>> \o
                (IF method = "hover_over_element" /\ eng = "ok"
                    THEN <<EngineCall("move_to_element.perform", "element", "element")>> ELSE <<>>),
     outcome |-> IF eng = "ok" THEN "returned" ELSE "raised",
     result |-> IF eng # "ok" THEN "engine error"
                ELSE IF method = "get_element_text" THEN "text" ELSE "None"]

CallRecord(method, hook_value, locate_by, lookups, engine, outcome, result) ==
    [method |-> method, hook_value |-> hook_value, locate_by |-> locate_by, lookups |-> lookups,
     engine |-> engine, outcome |-> outcome, result |-> result]

\* What a call leaves behind, given how its target was resolved: an error of the lookup
\* propagates, a resolution that does not forward returns None, and otherwise the body runs.
Interact(method, hook_value, locate_by, r) ==
    /\ driver # "none"
    /\ \E eng \in EngineOutcomes :
        LET b == MethodBody(method, r.by, r.value, eng) IN
        call' = IF r.error # "none"
                    THEN CallRecord(method, hook_value, locate_by, r.lookups, <<>>, "raised", r.error)
                ELSE IF ~r.forward
                    THEN CallRecord(method, hook_value, locate_by, r.lookups, <<>>, "returned", "None")
                ELSE CallRecord(method, hook_value, locate_by, r.lookups, b.engine, b.outcome, b.result)
    /\ UNCHANGED <<session_vars, shot_vars, not_drv_vars>>

\* @check_locate_by wait_for_element_visible(hook_value, locate_by=False)
wait_for_element_visible(hook_value, locate_by) ==
    Interact("wait_for_element_visible", hook_value, locate_by, check_locate_by(hook_value, locate_by))

\* @check_locate_by wait_until_element_invisible(hook_value, locate_by=False)
wait_until_element_invisible(hook_value, locate_by) ==
    Interact("wait_until_element_invisible", hook_value, locate_by, check_locate_by(hook_value, locate_by))

\* fill_in_field(input_text, hook_value, locate_by=False): resolves through _check_locate_by
fill_in_field(hook_value, locate_by) ==
    Interact("fill_in_field", hook_value, locate_by, _check_locate_by(hook_value, locate_by))

\* @check_locate_by select_element(hook_value, locate_by=False)
select_element(hook_value, locate_by) ==
    Interact("select_element", hook_value, locate_by, check_locate_by(hook_value, locate_by))

\* @check_locate_by hover_over_element(hook_value, locate_by=False)
hover_over_element(hook_value, locate_by) ==
    Interact("hover_over_element", hook_value, locate_by, check_locate_by(hook_value, locate_by))

\* @check_locate_by get_element_text(hook_value, locate_by=False)
get_element_text(hook_value, locate_by) ==
    Interact("get_element_text", hook_value, locate_by, check_locate_by(hook_value, locate_by))

\* ---- take_screenshot ----

MaxShots == 3

MaxOld == 3

\* A path string is a sequence of tokens, "/" being the separator. The directory of a
\* path is what precedes its last separator (the working directory <<>> when there is none),
\* its name the concatenation of what follows.
RECURSIVE LastSlash(_)
LastSlash(p) == IF p = <<>> THEN 0 ELSE IF p[Len(p)] = "/" THEN Len(p) ELSE LastSlash(SubSeq(p, 1, Len(p) - 1))

RECURSIVE Join(_)
Join(p) == IF p = <<>> THEN "" ELSE Head(p) \o Join(Tail(p))

DirName(p) == IF LastSlash(p) = 0 THEN <<>> ELSE SubSeq(p, 1, LastSlash(p) - 1)

BaseName(p) == Join(SubSeq(p, LastSlash(p) + 1, Len(p)))

\* The directory a path string names: a trailing separator does not change it.
Norm(d) == IF d # <<>> /\ d[Len(d)] = "/" THEN SubSeq(d, 1, Len(d) - 1) ELSE d

File(dir, name, writer) == [dir |-> dir, name |-> name, writer |-> writer]

\* os.listdir(directory): the names of the files and of the directories directly in it.
listdir(files, directories, d) ==
    {f.name : f \in {g \in files : g.dir = Norm(d)}}
        \cup {BaseName(x) : x \in {y \in directories : y # <<>> /\ DirName(y) = Norm(d)}}

\* The directory argument: None (the default), or a path string.
DirArgs ==
    {[none |-> TRUE, path |-> <<>>],
     [none |-> FALSE, path |-> <<"out", "/">>],
     [none |-> FALSE, path |-> <<"out">>],
     [none |-> FALSE, path |-> <<"gone", "/">>]}

FileNames == {"test", "shot"}

ShotRecord(d, file_name, directory, n, path, outcome, wrote, overwrote, before, after) ==
    [arg |-> d, file_name |-> file_name, directory |-> directory, n |-> n, path |-> path,
     outcome |-> outcome, wrote |-> wrote, overwrote |-> overwrote,
     count_before |-> before, count_after |-> after]

NoShot == ShotRecord([none |-> TRUE, path |-> <<>>], "none", <<>>, 0, <<>>, "none", FALSE, FALSE, 0, 0)

\* DriverActions.take_screenshot(directory=None, file_name='test'): with no directory, use
\* screenshot_dir and create it if missing; count the entries of the directory; save to
\* f'{directory}{file_name}-{num_of_screenshots}.png'. listdir raises for a missing
\* directory; save_screenshot writes the file (over an existing one of that path) when the
\* path's directory exists and reports False otherwise.
take_screenshot(d, file_name) ==
    LET directory == IF d.none THEN screenshot_dir ELSE d.path
        dirs1 == IF d.none THEN dirs \cup {Norm(directory)} ELSE dirs
        num_of_screenshots == Cardinality(listdir(fs, dirs1, directory))
        path == directory \o <<file_name, "-", ToString(num_of_screenshots), ".png">>
        old == {f \in fs : f.dir = DirName(path) /\ f.name = BaseName(path)}
        fs1 == (fs \ old) \cup {File(DirName(path), BaseName(path), shots_taken + 1)}
    IN
    /\ driver # "none"
    /\ shots_taken < MaxShots
    /\ shots_taken' = shots_taken + 1
    /\ dirs' = dirs1
    /\ IF Norm(directory) \notin dirs1 THEN
            /\ fs' = fs
            /\ shot' = ShotRecord(d, file_name, directory, 0, <<>>, "FileNotFoundError", FALSE, FALSE, 0, 0)
       ELSE IF DirName(path) \notin dirs1 THEN
            /\ fs' = fs
            /\ shot' = ShotRecord(d, file_name, directory, num_of_screenshots, path, "returned",
                                  FALSE, FALSE, num_of_screenshots, num_of_screenshots)
       ELSE
            /\ fs' = fs1
            /\ shot' = ShotRecord(d, file_name, directory, num_of_screenshots, path, "returned",
                                  TRUE, old # {}, num_of_screenshots,
                                  Cardinality(listdir(fs1, dirs1, directory)))
    /\ UNCHANGED <<session_vars, call_vars, not_drv_vars>>

NextShot == \E d \in DirArgs, file_name \in FileNames : take_screenshot(d, file_name)

\* The files found in "out" before the session's first screenshot: 0..MaxOld older files.
OldFiles(k) == {File(<<"out">>, "old" \o ToString(i) \o ".log", 0) : i \in 1..k}

\* A session as DriverActions("desktop", "chrome") leaves it, for either form of the
\* configured screenshot directory, and a directory "out" holding some older files.
InitShot ==
    /\ InitDb
    /\ InitTest
    /\ driver = "Chrome"
    /\ hooks = "False"
    /\ screenshot_dir \in ScreenshotDirs
    /\ ctor = Construction("desktop", "chrome", "False",
                           <<"load_capability", "load_driver", "webdriver.Chrome">>, "none")
    /\ call = NoCall
    /\ fs \in {OldFiles(k) : k \in 0..MaxOld}
    /\ dirs = {<<>>, <<"out">>}
    /\ shot = NoShot
    /\ shots_taken = 0

NextDriver ==
    \/ \E p \in Platforms, c \in Capabilities, h \in HookFileNames, d \in ScreenshotDirs :
        DriverActions_init(p, c, h, d)
    \/ \E v \in Targets, k \in LocateByArgs : wait_for_element_visible(v, k)
    \/ \E v \in Targets, k \in LocateByArgs : wait_until_element_invisible(v, k)
    \/ \E v \in Targets, k \in LocateByArgs : fill_in_field(v, k)
    \/ \E v \in Targets, k \in LocateByArgs : select_element(v, k)
    \/ \E v \in Targets, k \in LocateByArgs : hover_over_element(v, k)
    \/ \E v \in Targets, k \in LocateByArgs : get_element_text(v, k)

\* No DriverActions object yet; nothing on disk but the working directory and the directory
\* "out" that tests pass to take_screenshot.
InitDriver ==
    /\ driver = "none"
    /\ hooks = "False"
    /\ screenshot_dir = <<>>
    /\ ctor = NoCtor
    /\ call = NoCall
    /\ fs = {}
    /\ dirs = {<<>>, <<"out">>}
    /\ shot = NoShot
    /\ shots_taken = 0

Init == InitDb /\ InitTest /\ InitDriver

SpecDb == Init /\ [][NextDb]_vars

SpecDriver == Init /\ [][NextDriver]_vars

SpecShot == InitShot /\ [][NextShot]_vars

SpecTest == Init /\ [][NextTest]_vars

\* The loop is straight-line blocking code: each step of a running call is eventually taken.
FairSpecDb ==
    /\ SpecDb
    /\ WF_vars(LoopCheck)
    /\ WF_vars(TryConnect)
    /\ WF_vars(Except)

\* ------------------------------------------------------------------------------------------
\* Properties of utilities/database.py
\* ------------------------------------------------------------------------------------------

Running == pc \in {"loop", "try", "except"}

Done == pc \in {"returned", "raised"}

AllFailed(tr) == \A i \in 1..Len(tr) : IsAttempt(tr[i]) => ~tr[i].ok

\* C1: when every connection attempt of a connect_to_db call (MySql or PostGre) fails, the
\* call makes exactly 4 attempts, never a 5th, then fails with the connection-exhausted
\* error, and it always terminates.
C1_ExhaustsAfterFourAttempts ==
    /\ [](Attempts(events) <= 4)
    /\ [](pc = "raised" => /\ Attempts(events) = 4
                           /\ AllFailed(events)
                           /\ db_error = "Unable to connect to Database")
    /\ []((Done /\ AllFailed(events)) => (pc = "raised" /\ Attempts(events) = 4))
    /\ [](Running => <>Done)

C1_Witness == pc = "raised" /\ cls = "PostGre" /\ Attempts(events) = 4 /\ AllFailed(events)

\* C2: when the first k-1 attempts fail and the k-th succeeds (1 <= k <= 4), connect_to_db
\* returns the handle after exactly k attempts and k-1 delays, and nothing (no delay, no
\* attempt) follows the successful attempt.
C2_ReturnsOnKthAttempt ==
    /\ \A i \in 1..Len(events) : (IsAttempt(events[i]) /\ events[i].ok) => i = Len(events)
    /\ pc = "returned" =>
        LET k == Attempts(events) IN
        /\ k \in 1..4
        /\ Sleeps(events) = k - 1
        /\ Len(events) = 2 * k - 1
        /\ events[Len(events)] = AttemptEvent(TRUE)
        /\ \A i \in 1..(Len(events) - 1) : IsAttempt(events[i]) => ~events[i].ok
        /\ conn # "none"
        /\ db_error = "none"

C2_Witness == pc = "returned" /\ Attempts(events) = 4 /\ Sleeps(events) = 3 /\ cls = "MySql"

\* C3: every delay of connect_to_db has the same fixed length of 2 time-units, and delays
\* occur only between two consecutive attempts: a call that exhausts its 4 attempts has
\* slept exactly 3 times and raises directly after its last failed attempt.
C3_DelaysOnlySeparateAttempts ==
    /\ \A i \in 1..Len(events) : IsSleep(events[i]) => events[i].len = 2
    /\ pc = "raised" =>
        /\ Sleeps(events) = Attempts(events) - 1
        /\ IsAttempt(events[Len(events)])

\* C10: execute_query_return_results (MySql and PostGre) raises DatabaseReturnedNothingError
\* whenever the query returned zero rows, and otherwise returns the rows, never an empty result.
C10_EmptyResultRaises ==
    (query.op = "execute_query_return_results" /\ query.outcome \in {"returned", "DatabaseReturnedNothingError"}) =>
        /\ (query.rows = <<>>) <=> (query.outcome = "DatabaseReturnedNothingError")
        /\ query.outcome = "returned" => (query.result = query.rows /\ query.result # <<>>)

\* C12: when connect_to_db is called with tunnelling enabled and an attempt succeeds, the
\* SSH tunnel opened for that attempt is still open when the connection handle is
\* delivered to the caller: it is not closed before or during the return.
C12_TunnelOpenAtReturn ==
    (pc = "returned" /\ UsesTunnel(cls, use_ssh)) => (conn = "open" /\ tunnel = "open")

\* C13: PostGre.execute_query and PostGre.execute_query_return_results leave the connection
\* closed on every exit on which the query ran without raising (normal return and
\* DatabaseReturnedNothingError) and leave it as it was, open for a handle that came in open,
\* when cursor creation, execute or fetch raises; the MySql helpers close it on no path, so
\* a handle delivered to a MySql caller stays open.
C13_ConnectionRelease ==
    /\ [][(pc = "returned" /\ pc' = "returned") =>
            /\ cls = "MySql" => conn' = conn
            /\ cls = "PostGre" =>
                IF query'.outcome \in {"returned", "DatabaseReturnedNothingError"}
                    THEN conn' = "closed"
                    ELSE conn' = conn]_vars
    /\ []((pc = "returned" /\ cls = "MySql") => conn = "open")

C13_Witness ==
    /\ cls = "PostGre"
    /\ query.op = "execute_query_return_results"
    /\ query.outcome = "returned"
    /\ query.rows # <<>>
    /\ conn = "closed"

\* ------------------------------------------------------------------------------------------
\* Properties of core/core_details.py
\* ------------------------------------------------------------------------------------------

IssuedIds == [i \in 1..Len(tests) |-> tests[i].test_id]

\* C7: the test_id values issued by successive TestDefinition constructions are pairwise
\* distinct and strictly increasing in construction order, the counter stays ahead of every
\* issued id (no id is reused), and a step that only assigns other fields of a record changes
\* neither an issued id nor the counter.
C7_IdsStrictlyIncreasing ==
    /\ [](\A i, j \in 1..Len(tests) : i < j => tests[i].test_id < tests[j].test_id)
    /\ [](\A i \in 1..Len(tests) : tests[i].test_id < id_itr)
    /\ [][Len(tests') = Len(tests) => (IssuedIds' = IssuedIds /\ id_itr' = id_itr)]_vars
    /\ [][Len(tests') > Len(tests) => SubSeq(IssuedIds', 1, Len(tests)) = IssuedIds]_vars

C7_Witness ==
    /\ Len(tests) = 3
    /\ tests[1].test_status = "Passed"
    /\ tests[2].test_name = "login"
    /\ tests[3].test_id = 2

\* ------------------------------------------------------------------------------------------
\* Properties of driver/driver_interface.py
\* ------------------------------------------------------------------------------------------

Called == call.method # "none"

\* C4: an interaction method given an explicit locate_by kind does not consult the hook
\* registry and invokes the engine with exactly (that kind, the value passed), also when the
\* value is a registered hook name, with or without a registry.
C4_ExplicitKindReachesEngine ==
    (Called /\ call.locate_by # "False") =>
        /\ call.lookups = 0
        /\ call.engine # <<>>
        /\ call.engine[1].by = call.locate_by
        /\ call.engine[1].value = call.hook_value

C6_NoRegistryNoKindIsNoOp ==
    (Called /\ hooks = "False" /\ call.locate_by = "False") =>
        /\ call.engine = <<>>
        /\ call.outcome = "returned"
        /\ call.result = "None"

\* C11: looking up a hook name that is absent from the loaded registry fails with a
\* key-lookup (KeyError) error; inside an interaction method called with no explicit kind
\* the error propagates to the caller, the engine is not invoked, and the registry and the
\* session handle stay as they were.
C11_AbsentHookRaisesKeyError ==
    /\ [](hooks # "False" =>
            \A n \in Targets \ DOMAIN HookFiles[hooks] : ~get_hook(hooks, n).ok)
    /\ []((Called /\ hooks # "False" /\ call.locate_by = "False"
                  /\ call.hook_value \notin DOMAIN HookFiles[hooks]) =>
            /\ call.outcome = "raised"
            /\ call.result = "KeyError"
            /\ call.engine = <<>>)
    /\ [][(call' # call /\ call'.method # "none") => (hooks' = hooks /\ driver' = driver)]_vars

\* The engine session each supported browserName stands for.
C9_SessionFor ==
    [b \in Browsers |->
        CASE b = "chrome" -> "Chrome" [] b = "chromium" -> "Chrome(chromium)" [] b = "firefox" -> "Firefox"
          [] b = "ie" -> "Ie" [] b = "edge" -> "Edge" [] b = "opera" -> "Opera"]

C9_IsEngineStep(x) == x \in {"webdriver." \o C9_SessionFor[b] : b \in Browsers}

\* C9: constructing DriverActions fails with the not-found error, instantiating no engine
\* session, when the capability file of (platform, capability) does not exist; fails with the
\* unsupported-engine error, holding no session, when the file's browserName is not one of
\* chrome, chromium, firefox, ie, edge, opera; and otherwise instantiates exactly one engine
\* session, the one of that browserName. The capability check comes before any instantiation.
C9_ConstructionChecksCapabilityFirst ==
    ctor.platform # "none" =>
        LET key == <<ctor.platform, ctor.capability>>
            engines == SelectSeq(ctor.steps, C9_IsEngineStep)
        IN
        /\ ctor.steps[1] = "load_capability"
        /\ key \notin DOMAIN CapFiles =>
            (ctor.error = "Capability Not Found!" /\ engines = <<>> /\ driver = "none")
        /\ (key \in DOMAIN CapFiles /\ CapFiles[key] \notin Browsers) =>
            (ctor.error = "Unable to identify browser to load driver" /\ engines = <<>> /\ driver = "none")
        /\ (key \in DOMAIN CapFiles /\ CapFiles[key] \in Browsers) =>
            /\ engines = <<"webdriver." \o C9_SessionFor[CapFiles[key]]>>
            /\ ctor.error = "none" => driver = C9_SessionFor[CapFiles[key]]
            /\ ctor.error \notin {"Capability Not Found!", "Unable to identify browser to load driver"}

C9_Witness ==
    /\ ctor.capability = "chromium"
    /\ ctor.hook_file_name = "main"
    /\ ctor.steps = <<"load_capability", "load_driver", "webdriver.Chrome(chromium)", "Hooks">>
    /\ driver = "Chrome(chromium)"

\* C8: take_screenshot(dir, name) writes name-n.png inside dir, n being the number of files
\* in dir at the call, so each call raises the file count of dir by one and overwrites no
\* earlier file, whether or not the path string passed ends with a separator.
C8_ScreenshotWrittenInsideDir ==
    (shot.outcome = "returned" /\ ~shot.arg.none) =>
        /\ shot.wrote
        /\ File(Norm(shot.directory), Join(<<shot.file_name, "-", ToString(shot.count_before), ".png">>),
                shots_taken) \in fs
        /\ shot.count_after = shot.count_before + 1
        /\ ~shot.overwrote

====
